---- MODULE Spec2Model ----
(***************************************************************************)
(* A model of src/watcher/watcher.py: the LogWatcher that follows an nginx *)
(* access log, keeps a sliding window of upstream statuses, detects pool   *)
(* failovers and error-rate breaches, and posts alerts to a Slack webhook  *)
(* under a per-key cooldown.                                               *)
(*                                                                         *)
(* Strings the code inspects character by character (upstream_status) are  *)
(* sequences of one-character strings.  Python's None is the value None.   *)
(* File sizes and offsets are counted in lines: every line of the log has  *)
(* the same length, so an offset always falls on a line boundary.          *)
(***************************************************************************)
EXTENDS Integers, Sequences, FiniteSets, TLC

\* ------------------------------------------------------------------ bounds
MaxTime == 5            \* the clock runs from StartClock to MaxTime
StartClock == 2         \* time.time() when the watcher is constructed
MaxCooldown == 3        \* ALERT_COOLDOWN_SEC is MaxCooldown - 1 or MaxCooldown
MaxLinesPool == 5       \* lines processed in a run of Spec
MaxLinesWindow == 11    \* lines processed in a run of SpecWindow
MaxLinesClassify == 3   \* lines processed in a run of SpecClassify
MaxWindow == 10         \* WINDOW_SIZE ranges up to MaxWindow in SpecWindow
MaxAppends == 3         \* lines the writer appends in a run of SpecTail
MaxTruncations == 1     \* times the log is truncated in a run of SpecTail
MaxDeletions == 1       \* times the log is deleted in a run of SpecTail
MaxLinesOdd == 3        \* lines parsed in a run of SpecLines
MaxLinesKeys == 10      \* lines processed in a run of SpecKeys

\* ------------------------------------------------------- program constants
MinSamples == 10        \* check_error_rate: len(self.request_window) < 10

\* ---------------------------------------------------------- Python values
None == "<None>"
NoEvent == [none |-> TRUE]          \* parse_log_line's None result

\* Python truthiness of an optional string (a pool, a webhook URL).
Truthy(s) == s # None /\ s # ""

\* dict.get(key, default) and dict[key] = value on a map with a finite domain.
Get(d, k, default) == IF k \in DOMAIN d THEN d[k] ELSE default
Put(d, k, v) == [x \in DOMAIN d \cup {k} |-> IF x = k THEN v ELSE d[x]]
EmptyMap == [x \in {} |-> 0]

\* ------------------------------------------------------------ input values
S200 == <<"2", "0", "0">>
S502 == <<"5", "0", "2">>
SDash == <<"-">>
SEmpty == <<>>
S200_502 == <<"2", "0", "0", ",", " ", "5", "0", "2">>
S502_200 == <<"5", "0", "2", ",", " ", "2", "0", "0">>

\* Timings as written in the log: numeric text, and text that is no number.
T001 == <<"0", ".", "0", "1">>
TAbc == <<"a", "b", "c">>

\* A raw log line.  shape: whether the line holds the six labelled tokens of the
\* pattern, in order; the six fields are the text between the quotes; status is
\* the client-facing status of the request line, which the pattern does not
\* capture.
Line(shape, pool, ustatus, rtime, status) ==
    [shape |-> shape, pool |-> pool, release |-> "v1", upstream_status |-> ustatus,
     upstream |-> "10.0.0.1:80", request_time |-> rtime,
     upstream_response_time |-> rtime, status |-> status]

PoolLines == {Line(TRUE, p, S200, T001, 200) : p \in {"blue", "green", "-"}}
WindowLines == {Line(TRUE, "blue", s, T001, 200) : s \in {S200, S502}}
TailLines == {Line(TRUE, p, S200, T001, 200) : p \in {"blue", "green"}}
OddLines ==
    {Line(sh, p, S200, t, 200) :
        sh \in BOOLEAN, p \in {"blue", "green", "-", ""}, t \in {T001, TAbc}}
KeyLines == {Line(TRUE, p, S502, T001, 502) : p \in {"blue", "green"}}
LoopLines ==
    {Line(TRUE, "blue", S200, T001, 200), Line(TRUE, "green", S200, T001, 200),
     Line(FALSE, "green", S502, T001, 502)}
ClassifyLines ==
    {Line(TRUE, "blue", s, T001, c) :
        s \in {S200, S502, SDash, SEmpty, S200_502, S502_200}, c \in {200, 502}}

\* What requests.post can do: status 200, another status, or raise (timeout,
\* connection error).
Outcomes == {"200", "500", "exc"}

\* ------------------------------------------------------------------- state
VARIABLES
    webhook_url,        \* SLACK_WEBHOOK_URL
    error_threshold,    \* ERROR_RATE_THRESHOLD, per cent
    window_size,        \* WINDOW_SIZE
    cooldown,           \* ALERT_COOLDOWN_SEC
    maintenance_mode,   \* the environment's maintenance flag (never read by the code)
    request_window,     \* deque(maxlen=window_size) of upstream_status strings
    last_pool,
    last_alert_time,    \* dict: alert key -> time of the last delivered alert
    pc,                 \* position in watch_logs
    now,                \* time.time()
    posts,              \* history: the requests.post calls of the last step
    attempts,           \* history: the send_slack_alert calls of the last step
    last_post,          \* history: alert key -> time of the latest requests.post
    hist,               \* history: the lines parsed so far, oldest first
    failover_log,       \* history: the failover alerts raised, with the line's index
    rate,               \* history: the error_rate the last step computed, or None
    step,               \* history: what the last step was
    last_line,          \* history: the last raw line the last step handled, or NoLine
    last_size,          \* watch_logs: the offset read up to
    current_size,       \* watch_logs: the size last read
    fh,                 \* the file the open handle f refers to, 0 when closed
    path,               \* the file the log path names, 0 when there is none
    disk,               \* file -> its lines, each with the serial number it was written with
    processed,          \* history: the serial numbers of the lines read, in order
    appended,           \* history: lines written so far
    truncations,        \* history: truncations so far
    deletions           \* history: deletions so far

vars == <<webhook_url, error_threshold, window_size, cooldown, maintenance_mode,
          request_window, last_pool, last_alert_time, pc, now, posts, attempts,
          last_post, hist, failover_log, rate, step, last_line, last_size,
          current_size, fh,
          path, disk, processed, appended, truncations, deletions>>

files == <<path, disk, appended, truncations, deletions>>
cursor == <<last_size, current_size, fh>>

config == <<webhook_url, error_threshold, window_size, cooldown, maintenance_mode>>

\* -------------------------------------------------------- parse_log_line
parse_log_line(line) ==
    IF line.shape
    THEN [pool |-> IF line.pool # "-" THEN line.pool ELSE None,
          release |-> IF line.release # "-" THEN line.release ELSE None,
          upstream_status |-> line.upstream_status,
          upstream |-> line.upstream,
          request_time |-> line.request_time,
          upstream_response_time |-> line.upstream_response_time]
    ELSE NoEvent

\* ------------------------------------------------------ send_slack_alert
\* The alert keys "startup_sent", "error_rate" and f"failover_{pool}".
StartupKey == <<"startup_sent", "">>
ErrorRateKey == <<"error_rate", "">>
FailoverKey(pool) == <<"failover_", pool>>

\* No error_rate was computed.
NoRate == [none |-> TRUE]

\* No line was handled.
NoLine == [none |-> TRUE]

\* The part of the watcher's state one line's handling reads and writes, with the
\* history it leaves.
Watcher ==
    [request_window |-> request_window, last_pool |-> last_pool,
     last_alert_time |-> last_alert_time, posts |-> <<>>, attempts |-> <<>>,
     last_post |-> last_post, hist |-> hist, failover_log |-> failover_log,
     rate |-> NoRate, last_line |-> NoLine]

\* The outcome of the j-th requests.post of a step.
OutcomeOf(net, j) == net[((j - 1) % Len(net)) + 1]

\* Mutant: one cooldown for all keys, active after a recorded dispatch of any.
CooldownActive_AnyKey(w, alert_key) ==
    \E k \in DOMAIN w.last_alert_time : now - w.last_alert_time[k] < cooldown

\* time.time() - last_alert_time < cooldown
CooldownActive(w, alert_key) ==
    now - Get(w.last_alert_time, alert_key, 0) < cooldown

\* The try block: post, and record the time only on status 200.
Deliver(w, alert_key, resp) ==
    LET posted == [w EXCEPT !.posts = Append(@, [key |-> alert_key, at |-> now,
                                                   resp |-> resp]),
                            !.last_post = Put(@, alert_key, now)]
    IN  IF resp = "200"
        THEN [posted EXCEPT !.last_alert_time = Put(@, alert_key, now)]
        ELSE posted

\* Mutant: the webhook is not tested before the cooldown and the post.
send_slack_alert_NoHookTest(w, alert_data, alert_key, net) ==
    LET called == [w EXCEPT !.attempts = Append(@, [key |-> alert_key,
                                                     data |-> alert_data])]
    IN  IF CooldownActive(called, alert_key) THEN called
        ELSE Deliver(called, alert_key, OutcomeOf(net, Len(called.posts) + 1))

\* Mutant: a suppressed attempt restarts the cooldown of its key.
send_slack_alert_RefreshOnSuppress(w, alert_data, alert_key, net) ==
    LET called == [w EXCEPT !.attempts = Append(@, [key |-> alert_key,
                                                     data |-> alert_data])]
    IN  IF ~Truthy(webhook_url) THEN called
        ELSE IF CooldownActive(called, alert_key)
             THEN [called EXCEPT !.last_alert_time = Put(@, alert_key, now)]
        ELSE Deliver(called, alert_key, OutcomeOf(net, Len(called.posts) + 1))

send_slack_alert(w, alert_data, alert_key, net) ==
    LET called == [w EXCEPT !.attempts = Append(@, [key |-> alert_key,
                                                     data |-> alert_data])]
    IN  IF ~Truthy(webhook_url) THEN called
        ELSE IF CooldownActive(called, alert_key) THEN called
        ELSE Deliver(called, alert_key, OutcomeOf(net, Len(called.posts) + 1))


\* -------------------------------------------------------- check_failover
\* Mutant: the stored pool is not tested, so the first pool seen is a failover.
FailoverDetected_NoStoredTest(w, pool) ==
    Truthy(pool) /\ pool # w.last_pool

FailoverDetected(w, pool) ==
    Truthy(pool) /\ Truthy(w.last_pool) /\ pool # w.last_pool

\* Mutant: the stored pool is overwritten by an empty pool too.
check_failover_StoresEmpty(w, pool, data, net) ==
    LET alert_data == [type |-> "Failover Detected",
                       previous_pool |-> w.last_pool, current_pool |-> pool]
        logged == [w EXCEPT !.failover_log =
                       Append(@, [from |-> w.last_pool, to |-> pool,
                                  index |-> Len(w.hist) - 1])]
        alerted == IF FailoverDetected(w, pool)
                   THEN send_slack_alert(logged, alert_data, FailoverKey(pool), net)
                   ELSE w
    IN  [alerted EXCEPT !.last_pool = pool]

check_failover(w, pool, data, net) ==
    LET alert_data == [type |-> "Failover Detected",
                       previous_pool |-> w.last_pool, current_pool |-> pool]
        logged == [w EXCEPT !.failover_log =
                       Append(@, [from |-> w.last_pool, to |-> pool,
                                  index |-> Len(w.hist) - 1])]
        alerted == IF FailoverDetected(w, pool)
                   THEN send_slack_alert(logged, alert_data, FailoverKey(pool), net)
                   ELSE w
    IN  IF Truthy(pool) THEN [alerted EXCEPT !.last_pool = pool] ELSE alerted

\* ------------------------------------------------------ check_error_rate
StartsWith5(s) == Len(s) > 0 /\ s[1] = "5"

\* s and s.startswith("5")
CountsAsError(s) == s # None /\ Len(s) > 0 /\ StartsWith5(s)

Errors(window) == Cardinality({i \in 1..Len(window) : CountsAsError(window[i])})

\* error_rate = (errors / len(self.request_window)) * 100, kept as a fraction.
ErrorRate(errors, len) == [num |-> errors * 100, den |-> len]

\* Mutant: the test is inclusive of the threshold.
Breach_Inclusive(error_rate, threshold) ==
    error_rate.num >= threshold * error_rate.den

\* error_rate > self.error_threshold.  For the window lengths and whole-number
\* thresholds of this model the floating point product is exact whenever the
\* ratio is a whole per cent, so the test is the comparison of the fractions.
Breach(error_rate, threshold) == error_rate.num > threshold * error_rate.den

\* Mutant: the ratio is evaluated from one sample below the floor.
check_error_rate_LowerFloor(w, net) ==
    IF Len(w.request_window) < MinSamples - 1 THEN w
    ELSE LET errors == Errors(w.request_window)
             len == Len(w.request_window)
             error_rate == ErrorRate(errors, len)
             alert_data == [type |-> "High Error Rate", error_rate |-> error_rate,
                            threshold |-> error_threshold, window |-> len,
                            total_errors |-> errors]
             rated == [w EXCEPT !.rate = error_rate]
         IN  IF Breach(error_rate, error_threshold)
             THEN send_slack_alert(rated, alert_data, ErrorRateKey, net)
             ELSE rated

check_error_rate(w, net) ==
    IF Len(w.request_window) < MinSamples THEN w
    ELSE LET errors == Errors(w.request_window)
             len == Len(w.request_window)
             error_rate == ErrorRate(errors, len)
             alert_data == [type |-> "High Error Rate", error_rate |-> error_rate,
                            threshold |-> error_threshold, window |-> len,
                            total_errors |-> errors]
             rated == [w EXCEPT !.rate = error_rate]
         IN  IF Breach(error_rate, error_threshold)
             THEN send_slack_alert(rated, alert_data, ErrorRateKey, net)
             ELSE rated

\* ------------------------------------------------------------- watch_logs
\* Mutant: a full window evicts nothing.
WindowAppend_NoEviction(window, x, maxlen) == Append(window, x)

\* deque(maxlen=n).append(x)
WindowAppend(window, x, maxlen) ==
    IF maxlen = 0 THEN window
    ELSE IF Len(window) < maxlen THEN Append(window, x)
    ELSE Append(Tail(window), x)

\* Mutant: a line that does not parse still enters the window and is rated.
HandleLine_KeepsUnparsed(w, line, net) ==
    LET parsed == parse_log_line(line)
        seen == [w EXCEPT !.last_line = line]
        kept == [seen EXCEPT
                    !.request_window =
                        WindowAppend(@, line.upstream_status, window_size)]
    IN  IF parsed = NoEvent THEN check_error_rate(kept, net)
        ELSE LET recorded == [kept EXCEPT !.hist = Append(@, line)]
                 failed_over == check_failover(recorded, parsed.pool, parsed, net)
             IN  check_error_rate(failed_over, net)

\* The body of the for loop over new_lines.
HandleLine(w, line, net) ==
    LET parsed == parse_log_line(line)
        seen == [w EXCEPT !.last_line = line]
    IN  IF parsed = NoEvent THEN seen
        ELSE LET recorded == [seen EXCEPT
                     !.request_window =
                         WindowAppend(@, parsed.upstream_status, window_size),
                     !.hist = Append(@, line)]
                 failed_over == check_failover(recorded, parsed.pool, parsed, net)
             IN  check_error_rate(failed_over, net)

\* The watcher's fields and history after a step that left them as w.
Becomes(w) ==
    /\ request_window' = w.request_window
    /\ last_pool' = w.last_pool
    /\ last_alert_time' = w.last_alert_time
    /\ posts' = w.posts
    /\ attempts' = w.attempts
    /\ last_post' = w.last_post
    /\ hist' = w.hist
    /\ failover_log' = w.failover_log
    /\ rate' = w.rate
    /\ last_line' = w.last_line

\* LogWatcher.__init__, with the environment it reads.
InitWith(hooks, thresholds, sizes, cooldowns, flags) ==
    /\ webhook_url \in hooks
    /\ error_threshold \in thresholds
    /\ window_size \in sizes
    /\ cooldown \in cooldowns
    /\ maintenance_mode \in flags
    /\ request_window = <<>>
    /\ last_pool = None
    /\ last_alert_time = EmptyMap
    /\ pc = "start"
    /\ now = StartClock
    /\ posts = <<>>
    /\ attempts = <<>>
    /\ last_post = EmptyMap
    /\ hist = <<>>
    /\ failover_log = <<>>
    /\ rate = NoRate
    /\ step = "init"
    /\ last_line = NoLine
    /\ last_size = 0
    /\ current_size = 0
    /\ fh = 0
    /\ path = 0
    /\ disk = [f \in 1..(MaxDeletions + 1) |-> <<>>]
    /\ processed = <<>>
    /\ appended = 0
    /\ truncations = 0
    /\ deletions = 0

\* The clock advances.
Tick ==
    /\ now < MaxTime
    /\ now' = now + 1
    /\ posts' = <<>>
    /\ attempts' = <<>>
    /\ rate' = NoRate
    /\ last_line' = NoLine
    /\ step' = "tick"
    /\ UNCHANGED <<config, request_window, last_pool, last_alert_time, pc,
                   last_post, hist, failover_log, files, cursor, processed>>

\* watch_logs up to the loop: the startup alert, sent when a webhook is set.
Startup ==
    /\ pc = "start"
    /\ pc' = "loop"
    /\ step' = "startup"
    /\ \E net \in [1..2 -> Outcomes] :
          IF Truthy(webhook_url) /\ Get(last_alert_time, StartupKey, 0) = 0
          THEN Becomes(send_slack_alert(Watcher, [type |-> "Monitor Started"],
                                        StartupKey, net))
          ELSE Becomes(Watcher)
    /\ UNCHANGED <<config, now, files, cursor, processed>>

\* One line of new_lines goes through the loop body.
ProcessLine(lines, maxLines) ==
    /\ pc = "loop"
    /\ Len(hist) < maxLines
    /\ step' = "line"
    /\ \E line \in lines, net \in [1..2 -> Outcomes] :
          Becomes(HandleLine(Watcher, line, net))
    /\ UNCHANGED <<config, pc, now, files, cursor, processed>>

\* ------------------------------------------------- watch_logs: the poll loop
\* os.path.exists(self.log_file)
Exists ==
    /\ pc = "loop"
    /\ pc' = IF path # 0 THEN "getsize" ELSE "loop"
    /\ step' = "exists"
    /\ Becomes(Watcher)
    /\ UNCHANGED <<config, now, files, cursor, processed>>

\* Mutant: the error of a missing file is not caught and ends the loop.
GetSize_Uncaught ==
    /\ pc = "getsize"
    /\ step' = "getsize"
    /\ IF path = 0
       THEN pc' = "crashed" /\ current_size' = current_size
       ELSE /\ current_size' = Len(disk[path])
            /\ pc' = IF Len(disk[path]) > last_size THEN "open" ELSE "loop"
    /\ Becomes(Watcher)
    /\ UNCHANGED <<config, now, files, last_size, fh, processed>>

\* current_size = os.path.getsize(self.log_file), and the test current_size >
\* last_size.  A missing file raises, and the except clause goes round the loop.
GetSize ==
    /\ pc = "getsize"
    /\ step' = "getsize"
    /\ IF path = 0
       THEN pc' = "loop" /\ current_size' = current_size
       ELSE /\ current_size' = Len(disk[path])
            /\ pc' = IF Len(disk[path]) > last_size THEN "open" ELSE "loop"
    /\ Becomes(Watcher)
    /\ UNCHANGED <<config, now, files, last_size, fh, processed>>

\* open(self.log_file, 'r').  A missing file raises.
Open ==
    /\ pc = "open"
    /\ step' = "open"
    /\ IF path = 0
       THEN pc' = "loop" /\ fh' = fh
       ELSE pc' = "read" /\ fh' = path
    /\ Becomes(Watcher)
    /\ UNCHANGED <<config, now, files, last_size, current_size, processed>>

\* f.seek(last_size); f.readlines(): the lines from the offset to the end of the
\* file as it is now.
ReadLines(file, offset) ==
    IF offset >= Len(disk[file]) THEN <<>>
    ELSE SubSeq(disk[file], offset + 1, Len(disk[file]))

\* for line in new_lines: the loop body, line after line.
RECURSIVE HandleLines(_, _, _)
HandleLines(w, new_lines, net) ==
    IF new_lines = <<>> THEN w
    ELSE HandleLines(HandleLine(w, Head(new_lines).line, net), Tail(new_lines), net)

\* The body of the with block: seek, readlines, the for loop; the file is closed
\* on the way out.
Read ==
    /\ pc = "read"
    /\ pc' = "save"
    /\ step' = "read"
    /\ LET new_lines == ReadLines(fh, last_size)
       IN  /\ \E net \in [1..2 -> Outcomes] :
                 Becomes(HandleLines(Watcher, new_lines, net))
           /\ processed' =
                 processed \o [i \in 1..Len(new_lines) |-> new_lines[i].serial]
    /\ fh' = 0
    /\ UNCHANGED <<config, now, files, last_size, current_size>>

\* f.seek or f.readlines raises (an I/O or a decoding error): the file is closed,
\* no line is handled, last_size stays, and the except clause goes round the loop.
ReadFails ==
    /\ pc = "read"
    /\ pc' = "loop"
    /\ step' = "readfail"
    /\ fh' = 0
    /\ Becomes(Watcher)
    /\ UNCHANGED <<config, now, files, last_size, current_size, processed>>

\* last_size = current_size; time.sleep(1)
Save ==
    /\ pc = "save"
    /\ pc' = "loop"
    /\ step' = "save"
    /\ last_size' = current_size
    /\ Becomes(Watcher)
    /\ UNCHANGED <<config, now, files, current_size, fh, processed>>

\* ------------------------------------------------- the log file's writer
\* The log is created, empty.
Create ==
    /\ path = 0
    /\ path' = deletions + 1
    /\ disk' = [disk EXCEPT ![deletions + 1] = <<>>]
    /\ step' = "create"
    /\ Becomes(Watcher)
    /\ UNCHANGED <<config, pc, now, cursor, processed, appended, truncations,
                   deletions>>

\* A line is appended to the log.
AppendLine(lines) ==
    /\ path # 0
    /\ appended < MaxAppends
    /\ appended' = appended + 1
    /\ \E line \in lines :
          disk' = [disk EXCEPT ![path] =
                      Append(@, [serial |-> appended + 1, line |-> line])]
    /\ step' = "append"
    /\ Becomes(Watcher)
    /\ UNCHANGED <<config, pc, now, cursor, processed, path, truncations,
                   deletions>>

\* The log is truncated to nothing, to be written again.
Truncate ==
    /\ path # 0
    /\ disk[path] # <<>>
    /\ truncations < MaxTruncations
    /\ truncations' = truncations + 1
    /\ disk' = [disk EXCEPT ![path] = <<>>]
    /\ step' = "truncate"
    /\ Becomes(Watcher)
    /\ UNCHANGED <<config, pc, now, cursor, processed, path, appended, deletions>>

\* The log is deleted; an open handle still reads the deleted file.
Delete ==
    /\ path # 0
    /\ deletions < MaxDeletions
    /\ deletions' = deletions + 1
    /\ path' = 0
    /\ step' = "delete"
    /\ Becomes(Watcher)
    /\ UNCHANGED <<config, pc, now, cursor, processed, disk, appended, truncations>>

\* ------------------------------------------------- specification: alert keys
\* Failing requests from both pools, enough of them for the error rate to be
\* evaluated, with and without a webhook; the clock stands still.
InitKeys == InitWith({"", "hook"}, {2}, {MinSamples}, {MaxCooldown - 1}, {FALSE})

ProcessKeyLine == ProcessLine(KeyLines, MaxLinesKeys)

NextKeys == Startup \/ ProcessKeyLine

SpecKeys == InitKeys /\ [][NextKeys]_vars

\* ---------------------------------------------------------- specifications
\* The dispatcher and the pool tracker: lines that differ in their pool, a clock
\* that advances between lines, every notifier outcome.
Init ==
    InitWith({"", "hook"}, {2}, {2}, {MaxCooldown - 1, MaxCooldown}, BOOLEAN)

ProcessPoolLine == ProcessLine(PoolLines, MaxLinesPool)

Next == Startup \/ Tick \/ ProcessPoolLine

Spec == Init /\ [][Next]_vars

\* The sliding window: enough lines to pass the sample floor and to fill the
\* window, statuses 200 and 502.
InitWindow ==
    InitWith({"hook"}, {MinSamples}, (MinSamples - 1)..MaxWindow, {MaxCooldown - 1},
             {FALSE})

ProcessWindowLine == ProcessLine(WindowLines, MaxLinesWindow)

NextWindow == Startup \/ ProcessWindowLine

SpecWindow == InitWindow /\ [][NextWindow]_vars

\* The classification of a window entry: every shape of upstream_status.
InitClassify == InitWith({"hook"}, {2}, {2}, {MaxCooldown - 1}, {FALSE})

ProcessClassifyLine == ProcessLine(ClassifyLines, MaxLinesClassify)

NextClassify == Startup \/ ProcessClassifyLine

SpecClassify == InitClassify /\ [][NextClassify]_vars

\* The extractor and the orchestrator on odd lines: lines without the pattern's
\* tokens, empty and placeholder pools, timings that are no numbers.
InitLines == InitWith({"hook"}, {2}, {2}, {MaxCooldown - 1}, {FALSE})

ProcessOddLine == ProcessLine(OddLines, MaxLinesOdd)

NextLines == Startup \/ ProcessOddLine

SpecLines == InitLines /\ [][NextLines]_vars

\* The poll loop against a log that is created, appended to, truncated and
\* deleted while the watcher runs.
InitTail == InitWith({"hook"}, {2}, {2}, {MaxCooldown - 1}, {FALSE})

AppendTailLine == AppendLine(TailLines)

NextTail ==
    \/ Startup \/ Exists \/ GetSize \/ Open \/ Read \/ Save
    \/ Create \/ AppendTailLine \/ Truncate \/ Delete

SpecTail == InitTail /\ [][NextTail]_vars

\* ------------------------------------------------- specification: failures
\* The poll loop with every failure it can meet: a log that is missing or
\* deleted under it, a read that raises, lines that do not parse, posts that
\* fail.
InitLoop == InitWith({"hook"}, {2}, {2}, {MaxCooldown - 1}, {FALSE})

AppendLoopLine == AppendLine(LoopLines)

NextLoop ==
    \/ Startup \/ Exists \/ GetSize \/ Open \/ Read \/ ReadFails \/ Save
    \/ Create \/ AppendLoopLine \/ Delete

SpecLoop == InitLoop /\ [][NextLoop]_vars

\* ------------------------------------------------------- claims: helpers
Max(S) == CHOOSE x \in S : \A y \in S : y <= x
Min2(a, b) == IF a <= b THEN a ELSE b
LastN(seq, n) == SubSeq(seq, Len(seq) - n + 1, Len(seq))
Raised(key) == \E i \in 1..Len(attempts) : attempts[i].key = key
Posted(key) == \E i \in 1..Len(posts) : posts[i].key = key

\* The pool each parsed line carried (None for the placeholder "-").
ObservedPools == [i \in 1..Len(hist) |-> parse_log_line(hist[i]).pool]

\* The last non-empty pool among the first n observations, None when there is none.
StoredAfter(obs, n) ==
    LET seen == {i \in 1..n : Truthy(obs[i])}
    IN  IF seen = {} THEN None ELSE obs[Max(seen)]

\* The failover events of the first n observations: one at every observation
\* that is non-empty and differs from the stored pool, indexed from 0.
RECURSIVE EventsUpTo(_, _)
EventsUpTo(obs, n) ==
    IF n = 0 THEN <<>>
    ELSE LET stored == StoredAfter(obs, n - 1)
         IN  IF Truthy(obs[n]) /\ stored # None /\ obs[n] # stored
             THEN Append(EventsUpTo(obs, n - 1),
                         [from |-> stored, to |-> obs[n], index |-> n - 1])
             ELSE EventsUpTo(obs, n - 1)

\* The upstream statuses of the parsed lines, oldest first.
StatusesOf(h) == [i \in 1..Len(h) |-> h[i].upstream_status]

RECURSIVE CountErrors(_)
CountErrors(seq) ==
    IF seq = <<>> THEN 0
    ELSE (IF CountsAsError(Head(seq)) THEN 1 ELSE 0) + CountErrors(Tail(seq))

\* The most recent min(k, N) statuses of the k lines parsed so far.
RecentStatuses == LastN(StatusesOf(hist), Min2(Len(hist), window_size))

\* The status codes embedded in an upstream_status field: the numbers among its
\* space/comma separated tokens.
IsSep(c) == c \in {",", " "}
Digits == {"0", "1", "2", "3", "4", "5", "6", "7", "8", "9"}
DigitVal(c) ==
    CASE c = "0" -> 0 [] c = "1" -> 1 [] c = "2" -> 2 [] c = "3" -> 3 [] c = "4" -> 4
      [] c = "5" -> 5 [] c = "6" -> 6 [] c = "7" -> 7 [] c = "8" -> 8 [] c = "9" -> 9

RECURSIVE NumVal(_, _, _)
NumVal(s, i, j) == IF j < i THEN 0 ELSE NumVal(s, i, j - 1) * 10 + DigitVal(s[j])

EmbeddedCodes(s) ==
    {NumVal(s, t[1], t[2]) :
        t \in {u \in (1..Len(s)) \X (1..Len(s)) :
                 /\ u[1] <= u[2]
                 /\ \A k \in u[1]..u[2] : s[k] \in Digits
                 /\ (u[1] = 1 \/ IsSep(s[u[1] - 1]))
                 /\ (u[2] = Len(s) \/ IsSep(s[u[2] + 1]))}}

UpstreamAbsent(s) == s = SEmpty \/ s = SDash

\* A line is an error when an embedded upstream status is in 500..599 or, the
\* upstream status absent, the client-facing status is.
ClaimedError(line) ==
    IF UpstreamAbsent(line.upstream_status)
    THEN line.status \in 500..599
    ELSE \E c \in EmbeddedCodes(line.upstream_status) : c \in 500..599

\* The place of a line's first reading among the lines read, 0 when it was
\* never read.
FirstRead(serial) ==
    LET at == {i \in 1..Len(processed) : processed[i] = serial}
    IN  IF at = {} THEN 0 ELSE CHOOSE i \in at : \A j \in at : i <= j

TimesRead(serial) == Cardinality({i \in 1..Len(processed) : processed[i] = serial})

\* The lines of the file now at the log path are read from its first line on,
\* in the order written: none is read before every line written before it.
ReadFromTheBeginning ==
    path # 0 =>
        \A j \in 1..Len(disk[path]) :
            FirstRead(disk[path][j].serial) > 0 =>
                \A k \in 1..(j - 1) :
                    /\ FirstRead(disk[path][k].serial) > 0
                    /\ FirstRead(disk[path][k].serial) < FirstRead(disk[path][j].serial)

\* Well-formed numeric text: digits with at most one decimal point.
IsNumericText(s) ==
    /\ \E i \in 1..Len(s) : s[i] \in Digits
    /\ \A i \in 1..Len(s) : s[i] \in Digits \cup {"."}
    /\ Cardinality({i \in 1..Len(s) : s[i] = "."}) <= 1

\* The last step handled a line, and the extractor did not parse it.
DroppedLine == step = "line" /\ parse_log_line(last_line) = NoEvent

\* The last step handled a line the extractor parsed.
ParsedLine == step = "line" /\ parse_log_line(last_line) # NoEvent

\* ------------------------------------------------------------------ claims
\* C1: any two notifier calls for the same key are at least the cooldown apart,
\* and an alert raised at least the cooldown after the key's last notifier call
\* (with a webhook configured) calls the notifier again.
C1_DispatchesCooldownApart ==
    [][/\ \A i \in 1..Len(posts') :
             posts'[i].key \in DOMAIN last_post
                 => posts'[i].at - last_post[posts'[i].key] >= cooldown
       /\ \A i \in 1..Len(attempts') :
             (/\ Truthy(webhook_url)
              /\ attempts'[i].key \in DOMAIN last_post
              /\ now' - last_post[attempts'[i].key] >= cooldown)
                 => \E j \in 1..Len(posts') : posts'[j].key = attempts'[i].key]_vars

\* C2: a notifier call that fails (another status than 200, or an exception)
\* still sets the key's last-dispatch time to the time of the call.
C2_FailedDeliveryConsumesCooldown ==
    \A i \in 1..Len(posts) :
        posts[i].resp # "200"
            => /\ posts[i].key \in DOMAIN last_alert_time
               /\ last_alert_time[posts[i].key] = posts[i].at

\* C3: while the maintenance flag is set no step calls the notifier, and no step
\* changes the cooldown map.
C3_MaintenanceSuppressesAll ==
    [][maintenance_mode
          => posts' = <<>> /\ last_alert_time' = last_alert_time]_vars

\* C4: while the log is only appended to, whatever the interleaving of the
\* appends with the poll steps, the lines read are the lines written, in the
\* order written and each once: the k-th line read is the k-th line written.
C4_AppendOnlyExactlyOnce ==
    (truncations = 0 /\ deletions = 0) =>
        \A i \in 1..Len(processed) : processed[i] = i

\* C5: after a truncation, a size read that finds the file shorter than the saved
\* offset resets the offset to 0, and the lines written after the truncation are
\* read from the first on, in order, each once.
C5_TruncationResetsOffset ==
    (truncations > 0 /\ deletions = 0) =>
        /\ (step = "getsize" => last_size <= current_size)
        /\ ReadFromTheBeginning
        /\ path # 0 => \A j \in 1..Len(disk[path]) :
                            TimesRead(disk[path][j].serial) <= 1

\* C6: after the log is deleted and created again, the new file is read from its
\* beginning, its lines in order and none skipped, whatever the old file's size.
C6_RecreatedFileReadFromStart ==
    (deletions > 0 /\ truncations = 0) => ReadFromTheBeginning

\* C7: the failover alerts raised are exactly those of the observations whose
\* pool is non-empty and differs from the stored (last non-empty) pool, from the
\* stored pool to the new one; the stored pool is the last non-empty pool seen;
\* the first non-empty observation raises none; and [blue, blue, green, green,
\* blue] raises exactly blue->green at index 2 and green->blue at index 4.
C7_FailoverEvents ==
    LET obs == ObservedPools
        n == Len(obs)
    IN  /\ failover_log = EventsUpTo(obs, n)
        /\ last_pool = StoredAfter(obs, n)
        /\ step = "line" =>
              \A p \in {"blue", "green"} :
                  Raised(FailoverKey(p)) <=>
                      (/\ failover_log # <<>>
                       /\ failover_log[Len(failover_log)].index = n - 1
                       /\ failover_log[Len(failover_log)].to = p)
        /\ (n >= 1 /\ StoredAfter(obs, n - 1) = None) =>
              (failover_log = <<>> /\ ~Raised(FailoverKey(obs[n])))
        /\ obs = <<"blue", "blue", "green", "green", "blue">> =>
              failover_log = <<[from |-> "blue", to |-> "green", index |-> 2],
                               [from |-> "green", to |-> "blue", index |-> 4]>>

C7_Witness ==
    /\ ObservedPools = <<"blue", "blue", "green", "green", "blue">>
    /\ Len(failover_log) = 2
    /\ Raised(FailoverKey("blue"))

\* C8: the window never holds more than window_size entries; it is the most
\* recent min(k, N) statuses of the k lines parsed so far (the oldest evicted
\* first); and a computed error rate is 100 * (errors among those entries) /
\* (their number).
C8_WindowIsMostRecent ==
    /\ Len(request_window) <= window_size
    /\ request_window = RecentStatuses
    /\ rate # NoRate =>
          /\ rate.num = 100 * CountErrors(RecentStatuses)
          /\ rate.den = Len(RecentStatuses)

C8_Witness ==
    /\ Len(hist) > window_size
    /\ Len(request_window) = window_size
    /\ hist[1].upstream_status = S502
    /\ rate # NoRate
    /\ rate.num = 200
    /\ Raised(ErrorRateKey)

\* C9 as claimed: once the window holds the sample floor, a line that leaves the
\* error ratio greater than or equal to the threshold raises an error-rate alert.
C9_InclusiveBreach ==
    (/\ step = "line"
     /\ Len(request_window) >= MinSamples
     /\ 100 * CountErrors(request_window) >= error_threshold * Len(request_window))
        => Raised(ErrorRateKey)

\* C9 as amended: once the window holds the sample floor, a line raises an
\* error-rate alert exactly when the error ratio is strictly greater than the
\* threshold; a ratio equal to the threshold raises none.
C9_StrictBreach ==
    (step = "line" /\ Len(request_window) >= MinSamples)
        => (Raised(ErrorRateKey) <=>
               100 * CountErrors(request_window)
                   > error_threshold * Len(request_window))

C9_Witness ==
    /\ step = "line"
    /\ Len(request_window) >= MinSamples
    /\ 100 * CountErrors(request_window) = error_threshold * Len(request_window)
    /\ ~Raised(ErrorRateKey)

\* C10: a window entry counts as an error exactly when one of the status codes
\* embedded in the line's upstream status is in 500..599 or, the upstream status
\* absent, the client-facing status is.
C10_ErrorIffAny5xx ==
    \A i \in 1..Len(request_window) :
        CountsAsError(request_window[i])
            <=> ClaimedError(hist[Len(hist) - Len(request_window) + i])

\* C11: a line the extractor does not parse changes nothing: the window, the
\* stored pool and the cooldown map stay as they were, no error rate is computed,
\* no failover is logged and no alert is attempted.
C11_UnparsedLineChangesNothing ==
    [][DroppedLine' =>
          /\ request_window' = request_window
          /\ last_pool' = last_pool
          /\ last_alert_time' = last_alert_time
          /\ hist' = hist
          /\ failover_log' = failover_log
          /\ rate' = NoRate
          /\ attempts' = <<>>
          /\ posts' = <<>>]_vars

C11_Witness ==
    /\ DroppedLine
    /\ last_line.pool = "green"
    /\ last_pool = "blue"
    /\ Len(request_window) = 1
    /\ attempts = <<>>

\* C14: the extractor returns None for a line that lacks a required token or
\* whose request time or upstream response time is no well-formed number, so
\* that no parsed line carries a malformed timing.
C14_ExtractorAllOrNothing ==
    /\ step = "line" =>
          ((\/ ~last_line.shape
            \/ ~IsNumericText(last_line.request_time)
            \/ ~IsNumericText(last_line.upstream_response_time))
               => parse_log_line(last_line) = NoEvent)
    /\ \A i \in 1..Len(hist) :
          /\ IsNumericText(hist[i].request_time)
          /\ IsNumericText(hist[i].upstream_response_time)

\* C16: a parsed line whose pool is empty or the placeholder changes neither the
\* stored pool nor the failover log and raises no failover alert; and the stored
\* pool is always unset or the most recent non-empty pool of the parsed lines.
C16_EmptyPoolIgnored ==
    /\ [](last_pool = StoredAfter(ObservedPools, Len(hist)))
    /\ [][(ParsedLine' /\ ~Truthy(parse_log_line(last_line').pool)) =>
             /\ last_pool' = last_pool
             /\ failover_log' = failover_log
             /\ \A i \in 1..Len(attempts') :
                   attempts'[i].data.type # "Failover Detected"]_vars

C16_Witness ==
    /\ ParsedLine
    /\ last_line.pool = ""
    /\ last_pool = "green"
    /\ Len(failover_log) = 1

\* An attempt of this step whose key has a recorded dispatch less than the
\* cooldown ago.
SuppressedAttempt(i) ==
    LET k == attempts'[i].key
    IN  /\ Truthy(webhook_url)
        /\ k \in DOMAIN last_alert_time
        /\ now - last_alert_time[k] < cooldown

\* C15: an attempt made while the cooldown of its key is active calls no
\* notifier and leaves the recorded time of its key as it was; a step all of
\* whose attempts are suppressed leaves the whole cooldown map unchanged.
C15_SuppressedAttemptLeavesMap ==
    [][/\ \A i \in 1..Len(attempts') :
              SuppressedAttempt(i) =>
                 /\ \A j \in 1..Len(posts') : posts'[j].key # attempts'[i].key
                 /\ attempts'[i].key \in DOMAIN last_alert_time'
                 /\ last_alert_time'[attempts'[i].key]
                       = last_alert_time[attempts'[i].key]
       /\ (/\ attempts' # <<>>
           /\ \A i \in 1..Len(attempts') : SuppressedAttempt(i))
             => posts' = <<>> /\ last_alert_time' = last_alert_time]_vars

\* A second failover to green was attempted after the clock moved, while the
\* cooldown of its key was still active; nothing was posted.
C15_Witness ==
    /\ step = "line" /\ posts = <<>>
    /\ Raised(FailoverKey("green"))
    /\ FailoverKey("green") \in DOMAIN last_alert_time
    /\ now > last_alert_time[FailoverKey("green")]
    /\ now - last_alert_time[FailoverKey("green")] < cooldown

\* C18: with a webhook set and maintenance off, the first attempt for a key
\* that has no recorded dispatch reaches the notifier, whatever the clock and
\* the cooldown are.
C18_FirstAttemptNeverSuppressed ==
    [][\A i \in 1..Len(attempts') :
          (/\ Truthy(webhook_url) /\ ~maintenance_mode
           /\ attempts'[i].key \notin DOMAIN last_alert_time)
            => \E j \in 1..Len(posts') : posts'[j].key = attempts'[i].key]_vars

\* C17: while the window holds fewer than MinSamples statuses no error rate is
\* computed and no error-rate alert is attempted, whatever the statuses are;
\* from MinSamples on, every parsed line has the rate of the window computed.
\* A window_size below MinSamples never yields an error-rate alert.
C17_NoRateBelowFloor ==
    /\ Len(request_window) < MinSamples =>
          rate = NoRate /\ ~Raised(ErrorRateKey)
    /\ (ParsedLine /\ Len(request_window) >= MinSamples) =>
          rate = ErrorRate(CountErrors(request_window), Len(request_window))
    /\ window_size < MinSamples => ~Raised(ErrorRateKey)

\* A window of nine has taken eleven lines, every one a 502: it is full of
\* errors and no rate was computed.
C17_Witness ==
    /\ window_size = MinSamples - 1
    /\ ParsedLine
    /\ Len(hist) = MinSamples + 1
    /\ Len(request_window) = window_size
    /\ \A i \in 1..Len(request_window) : request_window[i] = S502
    /\ rate = NoRate
    /\ attempts = <<>>

\* C13: without a webhook nothing is ever posted and the cooldown map stays
\* empty, while the window holds the most recent statuses and the stored pool
\* is the last pool parsed.
C13_NoWebhookNoCall ==
    ~Truthy(webhook_url) =>
        /\ posts = <<>>
        /\ last_post = EmptyMap
        /\ last_alert_time = EmptyMap
        /\ request_window = RecentStatuses
        /\ last_pool = StoredAfter(ObservedPools, Len(hist))
        /\ failover_log = EventsUpTo(ObservedPools, Len(hist))

\* Without a webhook, the tenth line is a failover to green over the error
\* threshold: both alerts were raised.
C13_Witness ==
    /\ ~Truthy(webhook_url)
    /\ ParsedLine
    /\ Raised(ErrorRateKey)
    /\ Raised(FailoverKey("green"))
    /\ Len(request_window) = MinSamples
    /\ last_pool = "green"

\* The key an alert is attempted under, by its type.
KeyOf(alert_data) ==
    IF alert_data.type = "Failover Detected" THEN FailoverKey(alert_data.current_pool)
    ELSE IF alert_data.type = "High Error Rate" THEN ErrorRateKey
    ELSE StartupKey

\* C19: an attempt is keyed "startup_sent", "error_rate" or "failover_" with
\* the pool switched to; whether it is posted depends on the entry of its own
\* key only, and only the entries of keys posted with status 200 change.
C19_CooldownsPerKey ==
    [][/\ \A i \in 1..Len(attempts') :
              /\ attempts'[i].key = KeyOf(attempts'[i].data)
              /\ (\E j \in 1..Len(posts') : posts'[j].key = attempts'[i].key)
                   <=> (/\ Truthy(webhook_url)
                        /\ now - Get(last_alert_time, attempts'[i].key, 0)
                              >= cooldown)
       /\ DOMAIN last_alert_time \subseteq DOMAIN last_alert_time'
       /\ \A k \in DOMAIN last_alert_time' :
              IF \E j \in 1..Len(posts') :
                     posts'[j].key = k /\ posts'[j].resp = "200"
              THEN last_alert_time'[k] = now
              ELSE k \in DOMAIN last_alert_time
                   /\ last_alert_time'[k] = last_alert_time[k]]_vars

\* Failovers to green and to blue were both dispatched; the tenth line is a
\* second failover to green, which is suppressed, and the first error-rate
\* alert of the run, which is posted.
C19_Witness ==
    /\ ParsedLine
    /\ FailoverKey("blue") \in DOMAIN last_alert_time
    /\ FailoverKey("green") \in DOMAIN last_alert_time
    /\ Raised(FailoverKey("green")) /\ ~Posted(FailoverKey("green"))
    /\ Raised(ErrorRateKey) /\ Posted(ErrorRateKey)
    /\ Len(hist) = MinSamples

\* The places of the poll loop.
LoopPcs == {"loop", "getsize", "open", "read", "save"}

\* The last read posted an alert that was not delivered.
FailedDelivery ==
    step = "read" /\ \E j \in 1..Len(posts) : posts[j].resp # "200"

\* C12: once started the watcher is always at a place of the poll loop.  A
\* missing file at getsize or open and a failing read lead back to the head
\* of the loop; a read with a failed delivery or with lines that do not parse
\* goes on to save the offset; and at the head of the loop the next poll of
\* the file can be taken.
C12_LoopSurvivesFailures ==
    /\ [](pc # "start" => pc \in LoopPcs)
    /\ [][/\ (step' \in {"getsize", "open"} /\ path = 0) => pc' = "loop"
          /\ step' = "readfail" => pc' = "loop" /\ fh' = 0
          /\ (FailedDelivery'
               \/ (step' = "read"
                   /\ Len(hist') - Len(hist) < Len(processed') - Len(processed)))
                => pc' = "save"]_vars
    /\ [](pc = "loop" => ENABLED Exists)

\* The log has just gone missing under getsize, after a read that dropped a
\* line and a delivery that failed: the watcher is at the head of the loop.
C12_Witness ==
    /\ step = "getsize" /\ path = 0 /\ pc = "loop"
    /\ Len(hist) < Len(processed)
    /\ \E k \in DOMAIN last_post : k \notin DOMAIN last_alert_time

====
